---- MODULE Spec2Model ----
(***************************************************************************)
(* Model of the simplecloud execution module (src/_modules/simplecloud.py):*)
(* consume_map and its helpers, which expand the providers / servers /     *)
(* defaults pillar trees into the salt-cloud provider, profile and map     *)
(* trees.                                                                  *)
(*                                                                         *)
(* Representation of the Python values:                                    *)
(*   dict   a function whose domain is the set of keys; {} is <<>>         *)
(*   list   a sequence                                                     *)
(*   str    a string; the strings the code only looks into (the per-AZ     *)
(*          interface overrides, tested with  '-' in s) are sequences of   *)
(*          one-character strings                                          *)
(*   a security_groups declaration, which the code tests with isinstance(  *)
(*          x, list), is [list |-> BOOLEAN, v |-> sequence of ids]; a      *)
(*          single id x is [list |-> FALSE, v |-> <<x>>]                   *)
(*   a single-key dict {k: v} the code takes apart with keys().pop() and   *)
(*          values().pop() is a record naming the key and the value        *)
(*   an exception is the field exc of an operator's result, "none" when    *)
(*          the call returned                                              *)
(***************************************************************************)
EXTENDS Integers, Sequences, FiniteSets, TLC

(***************************************************************************)
(* Bounds of the model.                                                    *)
(***************************************************************************)
\* largest number of availability zones of an environment
MaxAZ == 3
\* largest instance count enumerated (default_servers and servers)
MaxServers == 4
\* one instance count whose ordinals reach two digits
BigCount == 12
\* number of consume_map calls made in one behaviour
MaxCalls == 2

(***************************************************************************)
(* dict and list primitives                                                *)
(***************************************************************************)
EmptyDict == <<>>

Has(d, k) == k \in DOMAIN d

\* d.update(e): the keys of both, e's value where both have one
Update(d, e) == e @@ d

\* del(d[k])
Del(d, k) == [x \in DOMAIN d \ {k} |-> d[x]]

\* in_list.remove(x): the list without the first occurrence of x
RECURSIVE Remove(_, _)
Remove(s, x) ==
    IF s = <<>> THEN <<>>
    ELSE IF Head(s) = x THEN Tail(s)
    ELSE <<Head(s)>> \o Remove(Tail(s), x)

\* Every order in which the elements of S can be listed.
RECURSIVE Orders(_)
Orders(S) ==
    IF S = {} THEN {<<>>}
    ELSE UNION {{<<x>> \o s : s \in Orders(S \ {x})} : x \in S}

\* What d.keys() can return, and the orders d.items() can visit: a dict
\* hands out its keys in an order of its own, neither sorted nor as
\* declared.
Keys(d) == Orders(DOMAIN d)

(***************************************************************************)
(* String formatting                                                       *)
(***************************************************************************)
DigitStr == <<"0", "1", "2", "3", "4", "5", "6", "7", "8", "9">>

RECURSIVE Decimal(_)
Decimal(i) ==
    IF i < 10 THEN DigitStr[i + 1]
    ELSE Decimal(i \div 10) \o DigitStr[(i % 10) + 1]

\* '%02d' % i  for i >= 0: decimal, zero-padded to at least two characters
Fmt02(i) == IF i < 10 THEN "0" \o Decimal(i) ELSE Decimal(i)

\* The hostname template of lines 187-191, kept as the text before and the
\* text after its %02d placeholder.
FqdnTemplate(server_role, ename, pname) ==
    [pre |-> server_role, post |-> "." \o ename \o "." \o pname \o ".example.com"]

\* the template string itself (the seed of the random generator)
FqdnString(fqdn) == fqdn.pre \o "%02d" \o fqdn.post

\* fqdn % i
FormatFqdn(fqdn, i) == fqdn.pre \o Fmt02(i) \o fqdn.post

\* '%(type)s_%(env)s_%(region)s' with region = pname + az_name
ProfileName(server_role, ename, pname, az_name) ==
    server_role \o "_" \o ename \o "_" \o pname \o az_name

(***************************************************************************)
(* Helpers of consume_map                                                  *)
(***************************************************************************)
update_server(server_roles, server_role, values) ==
    LET base == IF server_role \in DOMAIN server_roles
                THEN server_roles[server_role] ELSE EmptyDict
    IN  Update(server_roles, server_role :> Update(base, values))

_get_tags(environment, role) == [Environment |-> environment, Role |-> role]

_get_network_interface(index, subnet_id, security_groups) ==
    [DeviceIndex |-> index, SubnetId |-> subnet_id,
     SecurityGroupId |-> security_groups]

\* '-' in s
HasHyphen(s) == \E i \in DOMAIN s : s[i] = "-"

\* The loop body of _add_interfaces with the hyphen test of line 251 inverted.
InterfaceForInvertedTest(index, entry, envs, az_name, sec_groups) ==
    LET subnet == envs[entry.env].subnets[az_name]
        iface == _get_network_interface(index, subnet, sec_groups)
    IN  IF ~Has(envs, entry.env) \/ ~Has(envs[entry.env].subnets, az_name)
        THEN [exc |-> "KeyError", iface |-> EmptyDict]
        ELSE IF entry.dict /\ entry.az_ifaces # EmptyDict
        THEN IF ~Has(entry.az_ifaces, az_name)
             THEN [exc |-> "KeyError", iface |-> EmptyDict]
             ELSE IF ~HasHyphen(entry.az_ifaces[az_name])
                  THEN [exc |-> "none", iface |->
                        Update(iface, [NetworkInterfaceId |-> entry.az_ifaces[az_name]])]
                  ELSE [exc |-> "none", iface |->
                        Update(iface, [PrivateIpAddress |-> entry.az_ifaces[az_name]])]
        ELSE [exc |-> "none", iface |-> iface]

\* One iteration of the loop of _add_interfaces (lines 242-255): the interface
\* built for the declared entry at position index, or the KeyError of a
\* failed lookup.  A bare environment name leaves az_ifaces None.
InterfaceFor(index, entry, envs, az_name, sec_groups) ==
    LET env_name == entry.env
        az_ifaces == entry.az_ifaces
    IN  IF ~Has(envs, env_name) \/ ~Has(envs[env_name].subnets, az_name)
        THEN [exc |-> "KeyError", iface |-> EmptyDict]
        ELSE LET subnet == envs[env_name].subnets[az_name]
                 iface == _get_network_interface(index, subnet, sec_groups)
             IN  IF entry.dict /\ az_ifaces # EmptyDict
                 THEN IF ~Has(az_ifaces, az_name)
                      THEN [exc |-> "KeyError", iface |-> EmptyDict]
                      ELSE IF HasHyphen(az_ifaces[az_name])
                           THEN [exc |-> "none", iface |->
                                 Update(iface, [NetworkInterfaceId |-> az_ifaces[az_name]])]
                           ELSE [exc |-> "none", iface |->
                                 Update(iface, [PrivateIpAddress |-> az_ifaces[az_name]])]
                 ELSE [exc |-> "none", iface |-> iface]

RECURSIVE AddInterfacesFrom(_, _, _, _, _, _)
AddInterfacesFrom(add_to, interfaces, index, envs, az_name, sec_groups) ==
    IF interfaces = <<>> THEN [exc |-> "none", ifaces |-> add_to]
    ELSE LET r == InterfaceFor(index, Head(interfaces), envs, az_name, sec_groups)
         IN  IF r.exc # "none" THEN [exc |-> r.exc, ifaces |-> add_to]
             ELSE AddInterfacesFrom(Append(add_to, r.iface), Tail(interfaces),
                                    index + 1, envs, az_name, sec_groups)

_add_interfaces(add_to, interfaces, envs, az_name, sec_groups) ==
    AddInterfacesFrom(add_to, interfaces, 0, envs, az_name, sec_groups)

\* Lines 298-303: the tags one volume ends up with.
TagVolume(vol, environment, stname) ==
    LET default_vol_tags ==
            [Environment |-> environment, Role |-> stname, Service |-> "ebs"]
        tags0 == IF Has(vol, "tags") THEN vol.tags ELSE EmptyDict
        tags1 == Update(tags0, default_vol_tags)
        tags2 == IF Has(vol, "type")
                 THEN Update(tags1, [VolumeType |-> vol.type]) ELSE tags1
    IN  Update(vol, [tags |-> tags2])

\* Lines 305-309: the normalised security-group list with common_sec appended.
\* common_sec is the single id declared for `common`.
SecurityGroups(profile, common_sec) ==
    LET sg0 == IF ~Has(profile, "security_groups") THEN <<>>
               ELSE profile.security_groups.v
    IN  Append(sg0, common_sec.v[1])

\* Line 310
HasRequired(profile) ==
    \A reqs \in {"size", "image", "security_groups"} : Has(profile, reqs)

\* _produce_profile.  The result carries: exc (the UnboundLocalError of line
\* 309 when no `common` group is known), valid (FALSE for the `return False`
\* of line 315), the resolved profile and stname, the volumes as they were
\* merged before tagging, and the caller's override dict as the call leaves
\* it (profile.update(overrides) shares the override's volumes and
\* security_groups list with the profile, so tagging and appending write
\* through to them).
_produce_profile(server_role, defaults, profile_defs, environment) ==
    LET stname == server_role.name
        overrides == IF server_role.dict THEN server_role.overrides ELSE EmptyDict
        p1 == IF Has(profile_defs, stname)
              THEN Update(defaults, profile_defs[stname]) ELSE defaults
        has_common == /\ Has(profile_defs, "common")
                      /\ Has(profile_defs["common"], "security_groups")
        p2 == Update(p1, overrides)
        p3 == IF Has(p2, "volumes")
              THEN Update(p2, [volumes |->
                       [i \in DOMAIN p2.volumes |->
                           TagVolume(p2.volumes[i], environment, stname)]])
              ELSE p2
        ov1 == IF Has(overrides, "volumes")
               THEN Update(overrides, [volumes |-> p3.volumes]) ELSE overrides
        declared == IF Has(p2, "volumes") THEN p2.volumes ELSE <<>>
    IN  IF ~has_common
        THEN [exc |-> "UnboundLocalError", valid |-> FALSE, profile |-> EmptyDict,
              stname |-> stname, declared_volumes |-> declared, overrides |-> ov1]
        ELSE LET sg == SecurityGroups(p3, profile_defs["common"].security_groups)
                 p4 == Update(p3, [security_groups |-> sg])
                 ov2 == IF /\ Has(overrides, "security_groups")
                           /\ overrides.security_groups.list
                        THEN Update(ov1, [security_groups |->
                                            [list |-> TRUE, v |-> sg]])
                        ELSE ov1
             IN  [exc |-> "none", valid |-> HasRequired(p4), profile |-> p4,
                  stname |-> stname, declared_volumes |-> declared,
                  overrides |-> ov2]

\* _get_cycle_list without line 206: the drawn element is inserted in front but
\* never removed from its old place.
CycleListWithoutRemove(first, in_list) == <<first>> \o in_list

\* Lines 206-208 of _get_cycle_list; first is what random.choice(in_list)
\* drew after random.seed(seed).
_get_cycle_list(first, in_list) == <<first>> \o Remove(in_list, first)

\* The body of the loop of _get_map_data (lines 218-221) for ordinal i.
MapStep(return_profiles, i, cycle_list, profiles, map_defaults, fqdn) ==
    LET az == cycle_list[((i - 1) % Len(cycle_list)) + 1]
        name == profiles[az]
        host == FormatFqdn(fqdn, i) :> map_defaults
    IN  IF ~Has(return_profiles, name)
        THEN Update(return_profiles, name :> Update(EmptyDict, host))
        ELSE Update(return_profiles, name :> Update(return_profiles[name], host))

\* The loop of lines 215-221 from ordinal i on.
RECURSIVE MapLoop(_, _, _, _, _, _, _)
MapLoop(return_profiles, i, cycle_list, profiles, no_of_servers, map_defaults, fqdn) ==
    IF i > no_of_servers THEN return_profiles
    ELSE MapLoop(MapStep(return_profiles, i, cycle_list, profiles, map_defaults, fqdn),
                 i + 1, cycle_list, profiles, no_of_servers, map_defaults, fqdn)

\* _get_map_data, given the element the seeded choice drew and the list
\* profiles.keys() returned.
_get_map_data(profiles, no_of_servers, map_defaults, fqdn, first, keys) ==
    MapLoop(EmptyDict, 1, _get_cycle_list(first, keys),
            profiles, no_of_servers, map_defaults, fqdn)

\* Lines 152-153 written with `or`: a servers override of 0 falls back to the
\* provider's count.
StartServersIfTruthy(profile, no_of_servers) ==
    IF Has(profile, "servers") /\ profile.servers # 0
    THEN profile.servers ELSE no_of_servers

\* Lines 152-153
StartServers(profile, no_of_servers) ==
    IF ~Has(profile, "servers") THEN no_of_servers ELSE profile.servers

(***************************************************************************)
(* The input trees enumerated.  Every tree has the shape the module's      *)
(* docstring (lines 9-69) gives.                                           *)
(***************************************************************************)
AZLabels == <<"A", "B", "C", "D", "E">>

SubnetId(p, e, az) == "subnet-" \o p \o "-" \o e \o "-" \o az

\* subnets of environment e of provider p: k single-key {AZ: id} entries
Subnets(p, e, k) ==
    [i \in 1..k |-> [az |-> AZLabels[i], id |-> SubnetId(p, e, AZLabels[i])]]

Scalar(x) == [list |-> FALSE, v |-> <<x>>]
List(xs) == [list |-> TRUE, v |-> xs]

\* a server-list entry: a bare role name, or {role: overrides}
Bare(name) == [dict |-> FALSE, name |-> name, overrides |-> EmptyDict]
Over(name, o) == [dict |-> TRUE, name |-> name, overrides |-> o]

\* an interfaces entry: a bare environment name, or {env: {az: id-or-address}}
IfEnv(e) == [dict |-> FALSE, env |-> e, az_ifaces |-> EmptyDict]
IfMap(e, m) == [dict |-> TRUE, env |-> e, az_ifaces |-> m]

CommonId(p) == "sg-common-" \o p

Defaults(extra) ==
    [providers |-> Update([ssh_username |-> "admin", ssh_interface |-> "private_ips"],
                          extra),
     profiles |-> [sync_after_install |-> "all"],
     mappings |-> [minion |-> [master |-> "salt.example.com"]]]

BaseProvider(p, subnets) ==
    [id |-> "id-" \o p, provider |-> "ec2", location |-> p,
     subnets |-> subnets,
     sizes |-> [default |-> "t2.small"],
     images |-> [default |-> "ami-" \o p],
     volumes |-> EmptyDict,
     security_groups |-> [common |-> Scalar(CommonId(p))]]

Input(provs, servers, defaults) ==
    [providers |-> provs, servers |-> servers, defaults |-> defaults]

Counts == (0..MaxServers) \cup {BigCount}

\* Instance counts: one provider, one environment of k zones, one entry;
\* default_servers declared in the defaults, in the provider, or in both
\* (in both when the entry brings its own count).
DistCases ==
    {[ds |-> n, entry |-> Bare("web"), where |-> w]
        : n \in Counts, w \in {"defaults", "provider", "both"}}
    \cup {[ds |-> 3, entry |-> Over("web", [servers |-> n]), where |-> "both"]
            : n \in Counts}

DistInputs ==
    { Input([p1 |-> Update(BaseProvider("p1", [test |-> Subnets("p1", "test", k)]),
                           IF c.where = "defaults" THEN EmptyDict
                           ELSE [default_servers |-> c.ds])],
            [p1 |-> [test |-> <<c.entry>>]],
            Defaults(IF c.where = "provider" THEN EmptyDict
                     ELSE IF c.where = "defaults" THEN [default_servers |-> c.ds]
                     ELSE [default_servers |-> c.ds + 1]))
      : k \in 0..MaxAZ, c \in DistCases }

\* Security groups: declared for the role by the provider and/or by the
\* override, as nothing, a single id or a list; `common` declared or not.
SGDecls ==
    {Scalar("sg-web"), Scalar(CommonId("p1")), List(<<>>), List(<<"sg-web">>),
     List(<<"sg-web", "sg-db">>), List(<<CommonId("p1"), "sg-web">>)}

SGOptions == {EmptyDict} \cup {[security_groups |-> d] : d \in SGDecls}

SGInputs ==
    { Input([p1 |-> Update(BaseProvider("p1", [test |-> Subnets("p1", "test", 2)]),
                [security_groups |->
                    Update(IF common THEN [common |-> Scalar(CommonId("p1"))]
                           ELSE EmptyDict,
                           IF po = EmptyDict THEN EmptyDict
                           ELSE [web |-> po.security_groups])])],
            [p1 |-> [test |-> <<IF oo = EmptyDict THEN Bare("web")
                                ELSE Over("web", oo)>>]],
            Defaults([default_servers |-> 1]))
      : common \in BOOLEAN, po \in SGOptions, oo \in SGOptions }

\* Volumes: declared for role db by the provider or by the override, with and
\* without `type`, with and without caller-supplied tags.
BaseVol == [size |-> 100, device |-> "/dev/xvdf"]

VolTags ==
    {EmptyDict, [Name |-> "data"], [Environment |-> "custom"],
     [Role |-> "mine", Service |-> "s3"], [VolumeType |-> "io1", Name |-> "data"]}

Vols ==
    { Update(Update(BaseVol, IF ty = "" THEN EmptyDict ELSE [type |-> ty]),
             IF tg.has THEN [tags |-> tg.t] ELSE EmptyDict)
      : ty \in {"", "gp3"},
        tg \in {[has |-> FALSE, t |-> EmptyDict]}
               \cup {[has |-> TRUE, t |-> x] : x \in VolTags} }

VolLists ==
    {<<v>> : v \in Vols}
    \cup {<<[size |-> 10, device |-> "/dev/xvdg", type |-> "io1"], v>> : v \in Vols}

VolInputs ==
    { Input([p1 |-> Update(BaseProvider("p1", [test |-> Subnets("p1", "test", 1)]),
                [volumes |-> IF where = "override" THEN EmptyDict
                             ELSE IF where = "provider" THEN [db |-> vl]
                             ELSE [db |-> <<BaseVol>>]])],
            [p1 |-> [test |-> <<IF where = "provider" THEN Bare("db")
                                ELSE Over("db", [servers |-> 1, volumes |-> vl])>>]],
            Defaults([default_servers |-> 2]))
      : vl \in VolLists, where \in {"provider", "override", "both"} }

\* Interfaces: the provider declares test (k zones) and prod (k2 zones); the
\* override lists up to two interfaces.
IfaceEntries ==
    {IfEnv("test"), IfEnv("prod"), IfEnv("stage"),
     IfMap("prod", [A |-> <<"e", "n", "i", "-", "1">>, B |-> <<"1", "0", ".", "5">>]),
     IfMap("test", [A |-> <<"1", "0", ".", "7">>, B |-> <<"e", "n", "i", "-", "2">>,
                    C |-> <<"-">>, D |-> <<"9">>]),
     IfMap("prod", [A |-> <<"1", "0", ".", "9">>]),
     IfMap("prod", EmptyDict)}

IfaceLists ==
    {<<>>} \cup {<<a>> : a \in IfaceEntries}
    \cup {<<a, b>> : a \in IfaceEntries, b \in IfaceEntries}

IfaceInputs ==
    { Input([p1 |-> BaseProvider("p1", [test |-> Subnets("p1", "test", k),
                                        prod |-> Subnets("p1", "prod", k2)])],
            [p1 |-> [test |-> <<Over("web", [interfaces |-> il])>>]],
            Defaults([default_servers |-> 1]))
      : k \in 1..(MaxAZ - 1), k2 \in 1..2, il \in IfaceLists }

\* Several providers: p1 and p2 declare their own environments, sizes and
\* images; the servers tree names p1, p2 and the undeclared p3, each with one
\* environment, which may be one the provider does not declare.
ServerChoices == {"absent", "test", "prod"}

ServersOf(c1, c2, c3) ==
    LET one(p, c) == IF c = "absent" THEN EmptyDict ELSE p :> (c :> <<Bare("web")>>)
    IN  Update(Update(one("p1", c1), one("p2", c2)), one("p3", c3))

P2Subnets ==
    {[prod |-> Subnets("p2", "prod", 1)],
     [test |-> Subnets("p2", "test", 1)],
     [test |-> Subnets("p2", "test", 2), prod |-> Subnets("p2", "prod", 2)]}

MultiInputs ==
    { Input([p1 |-> Update(BaseProvider("p1", [test |-> Subnets("p1", "test", 2)]),
                       [sizes |-> [default |-> "t2.small", web |-> "m4.large"]]),
             p2 |-> Update(BaseProvider("p2", sn),
                       Update([sizes |-> IF websize THEN [default |-> "t2.micro",
                                                          web |-> "c4.xlarge"]
                                         ELSE [default |-> "t2.micro"]],
                              IF websize THEN [default_servers |-> 1] ELSE EmptyDict))],
            ServersOf(c1, c2, c3),
            Defaults([default_servers |-> 2]))
      : sn \in P2Subnets, websize \in BOOLEAN,
        c1 \in ServerChoices, c2 \in ServerChoices, c3 \in {"absent", "test"} }

\* Required fields: the provider declares no default image (or no default
\* size); role db has its own, role web has none unless the override gives it.
GateEntries ==
    {<<Bare("web")>>, <<Bare("db")>>, <<Bare("web"), Bare("db")>>,
     <<Bare("db"), Bare("web")>>, <<Over("web", [image |-> "ami-over", size |-> "t2.nano"])>>,
     <<Bare("db"), Over("web", [servers |-> 1])>>}

GateInputs ==
    { Input([p1 |-> Update(BaseProvider("p1", [test |-> Subnets("p1", "test", 2)]),
                       IF missing = "image"
                       THEN [images |-> [db |-> "ami-db"]]
                       ELSE [sizes |-> [db |-> "r4.large"]])],
            [p1 |-> [test |-> es]],
            Defaults([default_servers |-> 2]))
      : missing \in {"image", "size"}, es \in GateEntries }

\* No provider at all: every servers entry names an unknown provider.
EmptyInputs ==
    { Input(EmptyDict, [p3 |-> [test |-> <<Bare("web")>>]], Defaults(EmptyDict)) }

Inputs ==
    DistInputs \cup SGInputs \cup VolInputs \cup IfaceInputs \cup MultiInputs
    \cup GateInputs \cup EmptyInputs

(***************************************************************************)
(* consume_map as a state machine                                          *)
(***************************************************************************)
VARIABLES
    given,          \* the trees as the caller built them
    hash_order,     \* the order each dict iterated so far hands out its keys in
    in_providers,   \* the caller's providers tree (consume_map writes to it)
    in_servers,     \* the caller's servers tree (_produce_profile writes to it)
    cloud_defaults, \* the caller's defaults tree
    pc,             \* "idle", "providers" (lines 102-131), "servers" (133-200)
    providers, profiles, maps,     \* the three result trees being built
    environments, server_roles, role_defaults, no_of_servers,
    prov_todo,      \* providers the loop of line 102 has yet to visit
    srv_todo,       \* providers the loop of line 133 has yet to visit
    env_todo,       \* environments the loop of line 140 has yet to visit
    entry_todo,     \* positions the loop of line 144 has yet to visit
    cur_pname, cur_ename,
    warnings,       \* what LOG.warn was called with during this call
    rng,            \* what random.choice drew for each (seed, length) so far
    results,        \* the outcome of every finished call
    last_entry      \* what the last iteration of the loop of line 144 did

vars ==
    <<given, hash_order, in_providers, in_servers, cloud_defaults, pc, providers,
      profiles, maps, environments, server_roles, role_defaults, no_of_servers,
      prov_todo, srv_todo, env_todo, entry_todo, cur_pname, cur_ename, warnings,
      rng, results, last_entry>>

NoEntry ==
    [outcome |-> "none", call |-> 0, pname |-> "", ename |-> "",
     entry |-> Bare(""), resolved |-> EmptyDict, declared_volumes |-> <<>>,
     defs |-> EmptyDict, envs |-> EmptyDict,
     no_of_servers |-> 0, start_servers |-> 0, map_profiles |-> EmptyDict,
     emitted |-> EmptyDict, fqdn |-> FqdnTemplate("", "", ""), ret |-> EmptyDict]

\* The dict d, known as `site`, is iterated and hands out its keys as the
\* list keys: in any order the first time, in that same order every time
\* after.  The caller's dicts are known by where they hang in the trees, the
\* map_profiles of line 155 by the keys put into it, in that order.
Iterates(site, d, keys) ==
    /\ keys \in Keys(d)
    /\ Has(hash_order, site) => keys = hash_order[site]
    /\ hash_order' = Update(hash_order, site :> keys)

Init ==
    /\ \E inp \in Inputs :
        /\ given = inp
        /\ in_providers = inp.providers
        /\ in_servers = inp.servers
        /\ cloud_defaults = inp.defaults
    /\ pc = "idle"
    /\ providers = EmptyDict /\ profiles = EmptyDict /\ maps = EmptyDict
    /\ environments = EmptyDict /\ server_roles = EmptyDict
    /\ role_defaults = EmptyDict /\ no_of_servers = 0
    /\ prov_todo = <<>> /\ srv_todo = <<>> /\ env_todo = <<>> /\ entry_todo = <<>>
    /\ cur_pname = "" /\ cur_ename = ""
    /\ warnings = <<>>
    /\ rng = EmptyDict
    /\ hash_order = EmptyDict
    /\ results = <<>>
    /\ last_entry = NoEntry

\* The call is over: its locals are gone, its outcome is recorded.
Finish(exc, provs, profs, mps, warns) ==
    /\ results' = Append(results, [exc |-> exc, providers |-> provs,
                                   profiles |-> profs, maps |-> mps,
                                   warnings |-> warns])
    /\ pc' = "idle"
    /\ providers' = EmptyDict /\ profiles' = EmptyDict /\ maps' = EmptyDict
    /\ environments' = EmptyDict /\ server_roles' = EmptyDict
    /\ role_defaults' = EmptyDict /\ no_of_servers' = 0
    /\ prov_todo' = <<>> /\ srv_todo' = <<>> /\ env_todo' = <<>>
    /\ entry_todo' = <<>>
    /\ cur_pname' = "" /\ cur_ename' = ""
    /\ warnings' = <<>>

Raise(exc, warns) == Finish(exc, EmptyDict, EmptyDict, EmptyDict, warns)

\* consume_map is called (lines 89-100).  A later call is handed either the
\* very trees of the call before, as that call left them, or trees built
\* afresh from the same data.
Call ==
    /\ pc = "idle"
    /\ Len(results) < MaxCalls
    /\ \E fresh \in BOOLEAN :
        /\ (results = <<>>) => ~fresh
        /\ in_providers' = IF fresh THEN given.providers ELSE in_providers
        /\ in_servers' = IF fresh THEN given.servers ELSE in_servers
    /\ pc' = "providers"
    /\ providers' = EmptyDict /\ profiles' = EmptyDict /\ maps' = EmptyDict
    /\ environments' = EmptyDict
    /\ server_roles' = IF Has(cloud_defaults, "profiles")
                       THEN [default |-> cloud_defaults.profiles] ELSE EmptyDict
    /\ no_of_servers' = 0
    /\ \E keys \in Keys(in_providers) :
        /\ Iterates(<<"in_providers">>, in_providers, keys)
        /\ prov_todo' = keys
    /\ warnings' = <<>>
    /\ UNCHANGED <<given, cloud_defaults, role_defaults, srv_todo,
                   env_todo, entry_todo, cur_pname, cur_ename, rng, results,
                   last_entry>>

\* Lines 108-111: the environment one subnets list describes.
EnvironmentOf(subnets) ==
    [availability_zones |-> [i \in DOMAIN subnets |-> subnets[i].az],
     subnets |->
        [a \in {subnets[i].az : i \in DOMAIN subnets} |->
            subnets[CHOOSE i \in DOMAIN subnets :
                        /\ subnets[i].az = a
                        /\ \A j \in DOMAIN subnets : j > i => subnets[j].az # a].id]]

\* One of the loops of lines 115-126: update_server for every role of d.
\* Every role is a key of d once, so the roles do not write over one
\* another and the order of d.items() leaves no trace.
UpdateServers(server_roles_, d, attr) ==
    [server_role \in DOMAIN server_roles_ \cup DOMAIN d |->
        IF Has(d, server_role)
        THEN update_server(server_roles_, server_role,
                           attr :> d[server_role])[server_role]
        ELSE server_roles_[server_role]]

\* The keys of a provider lines 107-127 read and delete, in that order.
ProviderKeys == <<"subnets", "sizes", "images", "volumes", "security_groups">>

\* One iteration of the loop of line 102.
ProviderPass ==
    /\ pc = "providers"
    /\ prov_todo # <<>>
    /\ LET provider_name == Head(prov_todo)
           prov == in_providers[provider_name]
           provider0 == IF Has(cloud_defaults, "providers")
                        THEN cloud_defaults.providers ELSE EmptyDict
           missing == {i \in DOMAIN ProviderKeys : ~Has(prov, ProviderKeys[i])}
           stop == IF missing = {} THEN Len(ProviderKeys) + 1
                   ELSE CHOOSE i \in missing : \A j \in missing : i <= j
           prov_after == [k \in DOMAIN prov \ {ProviderKeys[i] : i \in 1..(stop - 1)}
                            |-> prov[k]]
       IN  /\ in_providers' = [in_providers EXCEPT ![provider_name] = prov_after]
           /\ IF missing # {}
              THEN Raise("KeyError", warnings)
              ELSE LET sr1 == UpdateServers(server_roles, prov.sizes, "size")
                       sr2 == UpdateServers(sr1, prov.images, "image")
                       sr3 == UpdateServers(sr2, prov.volumes, "volumes")
                       sr4 == UpdateServers(sr3, prov.security_groups,
                                            "security_groups")
                   IN  /\ environments' =
                            Update(environments,
                                   [e \in DOMAIN prov.subnets |->
                                        EnvironmentOf(prov.subnets[e])])
                       /\ server_roles' = sr4
                       /\ providers' =
                            Update(providers,
                                   provider_name :> Update(provider0, prov_after))
                       /\ prov_todo' = Tail(prov_todo)
                       /\ UNCHANGED <<pc, profiles, maps, role_defaults,
                                      no_of_servers, srv_todo, env_todo, entry_todo,
                                      cur_pname, cur_ename, warnings, results>>
    /\ UNCHANGED <<given, hash_order, in_servers, cloud_defaults, rng, last_entry>>

\* Line 131, once the loop of line 102 is over.
RoleDefaults ==
    /\ pc = "providers"
    /\ prov_todo = <<>>
    /\ IF ~Has(server_roles, "default")
       THEN /\ Raise("KeyError", warnings)
            /\ UNCHANGED hash_order
       ELSE /\ role_defaults' = server_roles["default"]
            /\ \E keys \in Keys(in_servers) :
                /\ Iterates(<<"in_servers">>, in_servers, keys)
                /\ srv_todo' = keys
            /\ pc' = "servers"
            /\ UNCHANGED <<providers, profiles, maps, environments, server_roles,
                           no_of_servers, prov_todo, env_todo, entry_todo,
                           cur_pname, cur_ename, warnings, results>>
    /\ UNCHANGED <<given, in_providers, in_servers, cloud_defaults,
                   rng, last_entry>>

\* One iteration of the loop of line 133, up to line 138.
ServersProvider ==
    /\ pc = "servers"
    /\ entry_todo = <<>> /\ env_todo = <<>>
    /\ srv_todo # <<>>
    /\ LET pname == Head(srv_todo)
       IN  IF ~Has(providers, pname)
           THEN /\ warnings' = Append(warnings, [kind |-> "no_provider", name |-> pname])
                /\ srv_todo' = Tail(srv_todo)
                /\ UNCHANGED <<pc, providers, profiles, maps, environments,
                               server_roles, role_defaults, no_of_servers,
                               prov_todo, env_todo, entry_todo, cur_pname,
                               cur_ename, results, hash_order>>
           ELSE IF ~Has(providers[pname], "default_servers")
           THEN /\ Raise("KeyError", warnings)
                /\ UNCHANGED hash_order
           ELSE /\ no_of_servers' = providers[pname].default_servers
                /\ providers' = [providers EXCEPT
                                   ![pname] = Del(providers[pname], "default_servers")]
                /\ srv_todo' = Tail(srv_todo)
                /\ \E keys \in Keys(in_servers[pname]) :
                    /\ Iterates(<<"in_servers", pname>>, in_servers[pname], keys)
                    /\ env_todo' = keys
                /\ cur_pname' = pname
                /\ UNCHANGED <<pc, profiles, maps, environments, server_roles,
                               role_defaults, prov_todo, entry_todo, cur_ename,
                               warnings, results>>
    /\ UNCHANGED <<given, in_providers, in_servers, cloud_defaults,
                   rng, last_entry>>

\* One iteration of the loop of line 140, up to line 143.
ServersEnvironment ==
    /\ pc = "servers"
    /\ entry_todo = <<>>
    /\ env_todo # <<>>
    /\ LET ename == Head(env_todo)
       IN  IF ~Has(environments, ename)
           THEN /\ warnings' = Append(warnings, [kind |-> "no_env", name |-> ename])
                /\ UNCHANGED <<entry_todo, cur_ename>>
           ELSE /\ entry_todo' = [i \in DOMAIN in_servers[cur_pname][ename] |-> i]
                /\ cur_ename' = ename
                /\ UNCHANGED warnings
    /\ env_todo' = Tail(env_todo)
    /\ UNCHANGED <<given, hash_order, in_providers, in_servers, cloud_defaults, pc,
                   providers, profiles, maps, environments, server_roles,
                   role_defaults, no_of_servers, prov_todo, srv_todo, cur_pname,
                   rng, results, last_entry>>

\* Lines 179-184
FinishedProfile(profile) ==
    Del(Del(Del(profile, "security_groups"), "servers"), "interfaces")

\* Lines 157-171: the interfaces of the profile of zone az_name.
NetworkInterfaces(profile, envs, ename, az_name) ==
    IF Has(profile, "interfaces")
    THEN _add_interfaces(<<>>, profile.interfaces, envs, az_name,
                         profile.security_groups)
    ELSE [exc |-> "none",
          ifaces |-> <<_get_network_interface(0, envs[ename].subnets[az_name],
                                              profile.security_groups)>>]

\* The loop of lines 156-186 over the zones azs still to visit.
RECURSIVE AZLoop(_, _, _, _, _, _, _, _)
AZLoop(azs, profile, profiles_env, map_profiles, envs, ename, pname, server_role) ==
    IF azs = <<>>
    THEN [exc |-> "none", profiles_env |-> profiles_env,
          map_profiles |-> map_profiles]
    ELSE LET az_name == Head(azs)
             nics == NetworkInterfaces(profile, envs, ename, az_name)
         IN  IF nics.exc # "none"
             THEN [exc |-> nics.exc, profiles_env |-> profiles_env,
                   map_profiles |-> map_profiles]
             ELSE LET profile2 == Update(profile, [network_interfaces |-> nics.ifaces])
                      profile_name == ProfileName(server_role, ename, pname, az_name)
                  IN  AZLoop(Tail(azs), profile2,
                             Update(profiles_env,
                                    profile_name :> FinishedProfile(profile2)),
                             Update(map_profiles, az_name :> profile_name),
                             envs, ename, pname, server_role)

\* One iteration of the loop of line 144 (lines 145-199).
ServerEntry ==
    /\ pc = "servers"
    /\ entry_todo # <<>>
    /\ LET idx == Head(entry_todo)
           pname == cur_pname
           ename == cur_ename
           entry == in_servers[pname][ename][idx]
           r == _produce_profile(entry, role_defaults, server_roles, ename)
           profile == Update(r.profile, [provider |-> pname,
                                         tag |-> _get_tags(ename, r.stname)])
           start_servers == StartServers(profile, no_of_servers)
           azs == environments[ename].availability_zones
           loop == AZLoop(azs, profile,
                          IF Has(profiles, ename) THEN profiles[ename] ELSE EmptyDict,
                          EmptyDict, environments, ename, pname, r.stname)
           fqdn == FqdnTemplate(r.stname, ename, pname)
           seed == <<FqdnString(fqdn), Cardinality(DOMAIN loop.map_profiles)>>
           seen == [NoEntry EXCEPT !.call = Len(results) + 1, !.pname = pname,
                                   !.ename = ename, !.entry = entry,
                                   !.defs = server_roles, !.envs = environments,
                                   !.no_of_servers = no_of_servers,
                                   !.declared_volumes = r.declared_volumes]
       IN  /\ in_servers' =
                IF entry.dict
                THEN [in_servers EXCEPT ![pname][ename][idx].overrides = r.overrides]
                ELSE in_servers
           /\ IF r.exc # "none"
              THEN /\ Raise(r.exc, warnings)
                   /\ last_entry' = [seen EXCEPT !.outcome = "raised"]
                   /\ UNCHANGED <<rng, hash_order>>
              ELSE IF ~r.valid
              THEN \* line 145 unpacks the False of line 315
                   /\ Raise("TypeError",
                            Append(warnings, [kind |-> "missing_reqs",
                                              name |-> r.stname]))
                   /\ last_entry' = [seen EXCEPT !.outcome = "raised"]
                   /\ UNCHANGED <<rng, hash_order>>
              ELSE IF loop.exc # "none"
              THEN /\ Raise(loop.exc, warnings)
                   /\ last_entry' = [seen EXCEPT !.outcome = "raised",
                                                 !.resolved = r.profile]
                   /\ UNCHANGED <<rng, hash_order>>
              ELSE IF loop.map_profiles = EmptyDict
              THEN \* random.choice of an empty list
                   /\ Raise("IndexError", warnings)
                   /\ last_entry' = [seen EXCEPT !.outcome = "raised",
                                                 !.resolved = r.profile]
                   /\ UNCHANGED <<rng, hash_order>>
              ELSE \E cycle_keys \in Keys(loop.map_profiles),
                      c \in 1..Cardinality(DOMAIN loop.map_profiles) :
                    /\ Iterates(<<"map_profiles">> \o azs, loop.map_profiles,
                                cycle_keys)
                    /\ Has(rng, seed) => c = rng[seed]
                    /\ rng' = Update(rng, seed :> c)
                    /\ LET ret == _get_map_data(loop.map_profiles, start_servers,
                                                cloud_defaults.mappings, fqdn,
                                                cycle_keys[c], cycle_keys)
                       IN  /\ maps' = Update(maps, ename :>
                                   Update(IF Has(maps, ename) THEN maps[ename]
                                          ELSE EmptyDict, ret))
                           /\ last_entry' =
                                [seen EXCEPT !.outcome = "done",
                                    !.resolved = r.profile,
                                    !.start_servers = start_servers,
                                    !.map_profiles = loop.map_profiles,
                                    !.emitted = [a \in DOMAIN loop.map_profiles |->
                                        loop.profiles_env[loop.map_profiles[a]]],
                                    !.fqdn = fqdn, !.ret = ret]
                    /\ profiles' = Update(profiles, ename :> loop.profiles_env)
                    /\ entry_todo' = Tail(entry_todo)
                    /\ UNCHANGED <<pc, providers, environments, server_roles,
                                   role_defaults, no_of_servers, prov_todo,
                                   srv_todo, env_todo, cur_pname, cur_ename,
                                   warnings, results>>
    /\ UNCHANGED <<given, in_providers, cloud_defaults>>

\* Line 200
Return ==
    /\ pc = "servers"
    /\ entry_todo = <<>> /\ env_todo = <<>> /\ srv_todo = <<>>
    /\ Finish("none", providers, profiles, maps, warnings)
    /\ UNCHANGED <<given, hash_order, in_providers, in_servers, cloud_defaults,
                   rng, last_entry>>

Next ==
    \/ Call
    \/ ProviderPass
    \/ RoleDefaults
    \/ ServersProvider
    \/ ServersEnvironment
    \/ ServerEntry
    \/ Return

Spec == Init /\ [][Next]_vars

(***************************************************************************)
(* Properties                                                              *)
(***************************************************************************)
\* The last iteration of the loop of line 144 ran to line 199.
EntryDone == last_entry.outcome = "done"

\* Number of hostnames _get_map_data returned under the profile of zone az.
HostCount(az) ==
    LET name == last_entry.map_profiles[az]
    IN  IF Has(last_entry.ret, name)
        THEN Cardinality(DOMAIN last_entry.ret[name]) ELSE 0

\* All hostnames _get_map_data returned.
HostsReturned == UNION {DOMAIN last_entry.ret[n] : n \in DOMAIN last_entry.ret}

\* C1 (distribution balance): whenever _get_map_data has returned for k >= 1
\* zones mapped to distinct profile names and a count N >= 0, the numbers of
\* hostnames of any two zones differ by at most 1, and each zone has
\* floor(N/k) or ceil(N/k) hostnames.
C1_DistributionBalance ==
    EntryDone =>
        LET mp == last_entry.map_profiles
            k == Cardinality(DOMAIN mp)
            N == last_entry.start_servers
        IN  /\ k >= 1
            /\ \A a, b \in DOMAIN mp : a # b => mp[a] # mp[b]
            /\ \A a, b \in DOMAIN mp : HostCount(a) - HostCount(b) <= 1
            /\ \A a \in DOMAIN mp :
                    HostCount(a) \in {N \div k, (N + k - 1) \div k}

\* C1 witness: three zones share four hostnames as 2/1/1.
C1_Witness ==
    /\ EntryDone
    /\ Cardinality(DOMAIN last_entry.map_profiles) = 3
    /\ last_entry.start_servers = 4
    /\ \E a, b \in DOMAIN last_entry.map_profiles :
            HostCount(a) = 2 /\ HostCount(b) = 1

\* default_servers of provider p as the input trees declare it: the
\* provider's own, else the one of the defaults.
DeclaredDefaultServers(p) ==
    IF Has(given.providers[p], "default_servers")
    THEN given.providers[p].default_servers
    ELSE given.defaults.providers.default_servers

\* C2 (instance count and ordinals): whenever an entry has been processed,
\* the hostnames returned are exactly the template formatted with each ordinal
\* 1..N, N of them, each under exactly one profile name of the entry's zones,
\* where N is the resolved role's `servers` when it has one (also when it is
\* 0) and the provider's default_servers otherwise.
C2_InstanceCountAndOrdinals ==
    EntryDone =>
        LET N == IF Has(last_entry.resolved, "servers")
                 THEN last_entry.resolved.servers
                 ELSE DeclaredDefaultServers(last_entry.pname)
            fqdn == FqdnTemplate(last_entry.entry.name, last_entry.ename,
                                 last_entry.pname)
            ret == last_entry.ret
        IN  /\ HostsReturned = {FormatFqdn(fqdn, i) : i \in 1..N}
            /\ Cardinality(HostsReturned) = N
            /\ \A n1, n2 \in DOMAIN ret :
                    n1 # n2 => DOMAIN ret[n1] \cap DOMAIN ret[n2] = {}
            /\ DOMAIN ret \subseteq
                    {last_entry.map_profiles[a] : a \in DOMAIN last_entry.map_profiles}

\* C2 witness: a `servers` override of 2 beats a default_servers of 3 and two
\* hostnames come back.
C2_Witness ==
    /\ EntryDone
    /\ Has(last_entry.resolved, "servers")
    /\ last_entry.resolved.servers = 2
    /\ last_entry.no_of_servers = 3
    /\ Cardinality(HostsReturned) = 2

\* The trees a finished call returned.
Trees(r) == <<r.providers, r.profiles, r.maps>>

\* C3 (idempotence): when the first call of consume_map returned, every later
\* call on identical inputs, be they fresh trees or the very trees of the
\* first call, returns too, with the same provider, profile and map trees.
C3_Idempotence ==
    \A i \in DOMAIN results :
        results[1].exc = "none" =>
            /\ results[i].exc = "none"
            /\ Trees(results[i]) = Trees(results[1])

\* C4 (consumption invariant): no provider of a returned provider tree has the
\* key default_servers.
C4_ConsumptionInvariant ==
    \A i \in DOMAIN results :
        results[i].exc = "none" =>
            \A p \in DOMAIN results[i].providers :
                ~Has(results[i].providers[p], "default_servers")

\* The provider of the last entry declares a `common` security group.
CommonDeclared ==
    /\ Has(given.providers, last_entry.pname)
    /\ Has(given.providers[last_entry.pname].security_groups, "common")

\* C5 (security-group invariant): whenever the provider declares a `common`
\* security group id, the security-group list of a resolved role contains
\* that id exactly once, as its last element.
C5_SecurityGroupInvariant ==
    (last_entry.resolved # EmptyDict /\ CommonDeclared) =>
        LET sg == last_entry.resolved.security_groups
            common ==
                given.providers[last_entry.pname].security_groups["common"].v[1]
        IN  /\ Cardinality({i \in DOMAIN sg : sg[i] = common}) = 1
            /\ sg[Len(sg)] = common

\* The profile names an entry of role `role` under provider p and environment
\* e can be given.
ProfileNames(role, e, p) ==
    {ProfileName(role, e, p, AZLabels[i]) : i \in DOMAIN AZLabels}

\* C6 (required-field gate): a call in which a role lacked a required field
\* returns; it logged exactly one warning naming that role and its trees hold
\* no profile and no map entry of that role.
C6_RequiredFieldGate ==
    \A i \in DOMAIN results :
        LET r == results[i]
        IN  \A j \in DOMAIN r.warnings :
                r.warnings[j].kind = "missing_reqs" =>
                    /\ r.exc = "none"
                    /\ Cardinality({m \in DOMAIN r.warnings :
                                        r.warnings[m].name = r.warnings[j].name}) = 1
                    /\ \A e \in DOMAIN r.profiles : \A q \in DOMAIN given.providers :
                            DOMAIN r.profiles[e]
                                \cap ProfileNames(r.warnings[j].name, e, q) = {}
                    /\ \A e \in DOMAIN r.maps : \A q \in DOMAIN given.providers :
                            DOMAIN r.maps[e]
                                \cap ProfileNames(r.warnings[j].name, e, q) = {}

\* C7 (unknown reference): in a returned call, a servers entry that names a
\* provider the providers tree lacks, or an environment that provider
\* declares no subnets for, has no profile and no map entry.
C7_UnknownReference ==
    \A i \in DOMAIN results :
        results[i].exc = "none" =>
            \A p \in DOMAIN given.servers :
                \A e \in DOMAIN given.servers[p] :
                    (\/ ~Has(given.providers, p)
                     \/ ~Has(given.providers[p].subnets, e)) =>
                        \A x \in DOMAIN given.servers[p][e] :
                            LET names == ProfileNames(given.servers[p][e][x].name, e, p)
                            IN  /\ Has(results[i].profiles, e) =>
                                    DOMAIN results[i].profiles[e] \cap names = {}
                                /\ Has(results[i].maps, e) =>
                                    DOMAIN results[i].maps[e] \cap names = {}

\* C8 (volume tagging): every volume of a resolved role carries the defaults
\* Environment, Role and Service=ebs for the keys the caller did not supply,
\* the caller's value for every tag key the caller did supply, and VolumeType
\* equal to its `type` when it has one.
C8_VolumeTagging ==
    (last_entry.resolved # EmptyDict /\ Has(last_entry.resolved, "volumes")) =>
        \A i \in DOMAIN last_entry.resolved.volumes :
            LET vol == last_entry.resolved.volumes[i]
                decl == last_entry.declared_volumes[i]
                supplied == IF Has(decl, "tags") THEN decl.tags ELSE EmptyDict
                defaults == [Environment |-> last_entry.ename,
                             Role |-> last_entry.entry.name, Service |-> "ebs"]
            IN  /\ \A key \in DOMAIN defaults :
                        ~Has(supplied, key) => vol.tags[key] = defaults[key]
                /\ \A key \in DOMAIN supplied :
                        (key = "VolumeType" /\ Has(decl, "type"))
                        \/ vol.tags[key] = supplied[key]
                /\ Has(decl, "type") => vol.tags["VolumeType"] = decl.type

\* The key of a provider under which it declares attribute attr per role.
ProviderKeyOf(attr) ==
    IF attr = "size" THEN "sizes" ELSE IF attr = "image" THEN "images" ELSE "volumes"

\* The layers an attribute of the last entry can come from, outermost first:
\* the override, what the entry's own provider declares for the role name,
\* the role defaults (the `default` role of line 131).
AttrLayers(attr) ==
    LET own == given.providers[last_entry.pname][ProviderKeyOf(attr)]
        role == last_entry.entry.name
    IN  <<last_entry.entry.overrides,
          IF Has(own, role) THEN (attr :> own[role]) ELSE EmptyDict,
          last_entry.defs["default"]>>

WithoutTags(vols) == [i \in DOMAIN vols |-> Del(vols[i], "tags")]

\* C9 (layered merge precedence): every attribute size, image, volumes of a
\* profile emitted for an entry under provider P is the override's value when
\* the override sets it, else what P declares for the role, else the default;
\* never what another provider declares.
C9_MergePrecedence ==
    EntryDone =>
        \A a \in DOMAIN last_entry.emitted :
            \A attr \in {"size", "image", "volumes"} :
                LET layers == AttrLayers(attr)
                    setting == {n \in DOMAIN layers : Has(layers[n], attr)}
                    first == CHOOSE n \in setting : \A m \in setting : n <= m
                    got == last_entry.emitted[a]
                IN  IF setting = {} THEN ~Has(got, attr)
                    ELSE /\ Has(got, attr)
                         /\ IF attr = "volumes"
                            THEN WithoutTags(got[attr]) = WithoutTags(layers[first][attr])
                            ELSE got[attr] = layers[first][attr]

\* C10 (network interface synthesis): the profile emitted for zone a has, for
\* a role without `interfaces`, exactly one interface with DeviceIndex 0 on
\* the subnet of a in the entry's environment; for a role with `interfaces`,
\* one interface per declared entry, the i-th (from 0) with DeviceIndex i on
\* the subnet of a in the referenced environment, with NetworkInterfaceId when
\* the override for a has a hyphen, PrivateIpAddress when it has none, and
\* neither for a bare environment name.
C10_NetworkInterfaces ==
    EntryDone =>
        \A a \in DOMAIN last_entry.emitted :
            LET ifs == last_entry.emitted[a].network_interfaces
                plain == {"DeviceIndex", "SubnetId", "SecurityGroupId"}
            IN  IF ~Has(last_entry.resolved, "interfaces")
                THEN /\ Len(ifs) = 1
                     /\ DOMAIN ifs[1] = plain
                     /\ ifs[1].DeviceIndex = 0
                     /\ ifs[1].SubnetId = last_entry.envs[last_entry.ename].subnets[a]
                ELSE LET decl == last_entry.resolved.interfaces
                     IN  /\ Len(ifs) = Len(decl)
                         /\ \A i \in DOMAIN decl :
                              /\ ifs[i].DeviceIndex = i - 1
                              /\ ifs[i].SubnetId = last_entry.envs[decl[i].env].subnets[a]
                              /\ IF decl[i].dict /\ Has(decl[i].az_ifaces, a)
                                 THEN IF \E c \in DOMAIN decl[i].az_ifaces[a] :
                                             decl[i].az_ifaces[a][c] = "-"
                                      THEN /\ DOMAIN ifs[i] = plain \cup {"NetworkInterfaceId"}
                                           /\ ifs[i].NetworkInterfaceId = decl[i].az_ifaces[a]
                                      ELSE /\ DOMAIN ifs[i] = plain \cup {"PrivateIpAddress"}
                                           /\ ifs[i].PrivateIpAddress = decl[i].az_ifaces[a]
                                 ELSE DOMAIN ifs[i] = plain

\* C10 witness: two zones, two declared interfaces, an existing interface id
\* in one emitted profile and a static address in another.
C10_Witness ==
    /\ EntryDone
    /\ Has(last_entry.resolved, "interfaces")
    /\ Len(last_entry.resolved.interfaces) = 2
    /\ \E a, b \in DOMAIN last_entry.emitted :
        /\ a # b
        /\ Has(last_entry.emitted[a].network_interfaces[2], "NetworkInterfaceId")
        /\ Has(last_entry.emitted[b].network_interfaces[2], "PrivateIpAddress")
        /\ last_entry.emitted[a].network_interfaces[2].DeviceIndex = 1

====
